---- MODULE Spec2Model ----
(***************************************************************************)
(* Signal generation and outcome tracking of the stock dashboard backend.  *)
(*                                                                         *)
(*   src/scan.py         pick_next_batch, run_scan                         *)
(*   src/polygon_api.py  get_diversified_universe and its day cache        *)
(*   spec.md 4.5         the Outcome Tracker (its code is not in src/)     *)
(*                                                                         *)
(* Prices and scores are integers.  A score is held in units of 1e-11 so   *)
(* that the rounding of the JSON cache (10 decimals) is visible.  Time is  *)
(* counted in slots, three per London day: before 15:00, 15:00 to 21:00    *)
(* (the trading window), after 21:00.  Slot 0 is a Friday morning.         *)
(*                                                                         *)
(* BatchSpec runs pick_next_batch on one day snapshot, Spec and DaySpec run *)
(* scan cycles over the committed tables (DaySpec stops on the Saturday),  *)
(* TrackerSpec runs price checks over the picks of one cycle.              *)
(***************************************************************************)
EXTENDS Integers, Sequences, FiniteSets, TLC

VARIABLES
    raw,        \* the day's universe rows, in the order the merge produces them
    already,    \* tickers scanned earlier today, as pick_next_batch reads them
    bsz,        \* batch_size argument of pick_next_batch
    mps,        \* min_per_sector argument of pick_next_batch
    tie_kind,   \* how the build's single-key quicksort orders equal scores
    json_ok,    \* whether the build's pd.io.json.dumps exists (cache readable)
    cache,      \* universe:<day> cache entry: <<>> when absent, else <<payload rows>>
    results,    \* the batches returned so far, with the path that served them
    signals,    \* committed rows of table signals, in id order
    outcomes,   \* committed rows of table outcomes, in creation order
    now,        \* current time slot
    last_run,   \* how the latest scan cycle ended
    last_check, \* the PriceCheck appended at the current instant: <<>> or <<record>>
    cycle,      \* what the latest run_scan call did, until time moves on
    kv,         \* the Redis store and the in-process _MEMO of polygon_api, with a clock
    tasks,      \* the get_diversified_universe calls in flight, one record per caller
    call        \* the helper calls made by the latest step, with arguments and results

vars == <<raw, already, bsz, mps, tie_kind, json_ok, cache, results,
          signals, outcomes, now, last_run, last_check, cycle, kv, tasks, call>>

\* the stores and helper calls of polygon_api and indicator_utils
helperVars == <<kv, tasks, call>>

\* the arguments and build of the batch selection
selectVars == <<raw, already, bsz, mps, tie_kind, json_ok>>

----------------------------------------------------------------------------
(* Sequence helpers *)

Range(s) == {s[i] : i \in 1..Len(s)}

Min2(a, b) == IF a <= b THEN a ELSE b

Max2(a, b) == IF a >= b THEN a ELSE b

Head_n(s, n) == SubSeq(s, 1, Min2(n, Len(s)))

RECURSIVE Reverse(_)
Reverse(s) == IF s = <<>> THEN <<>> ELSE Append(Reverse(Tail(s)), Head(s))

RECURSIVE Flatten(_)
Flatten(ss) == IF ss = <<>> THEN <<>> ELSE Head(ss) \o Flatten(Tail(ss))

----------------------------------------------------------------------------
(* Universe rows: [ticker, sector, score, pct] *)

Sectors == <<"Energy", "Tech">>

SectorOrd(s) == CHOOSE i \in 1..Len(Sectors) : Sectors[i] = s

\* a precedes b strictly under the sort key `mode`
Precedes(mode, a, b) ==
    CASE mode = "score_pct" ->
            \/ a.score > b.score
            \/ a.score = b.score /\ a.pct > b.pct
      [] mode = "score" -> a.score > b.score
      [] mode = "sector_rank" ->
            \/ SectorOrd(a.sector) < SectorOrd(b.sector)
            \/ a.sector = b.sector /\ a.sector_rank < b.sector_rank

\* Stable insertion: r goes after every row that does not come strictly after it.
RECURSIVE InsertStable(_, _, _)
InsertStable(mode, r, s) ==
    IF s = <<>> THEN <<r>>
    ELSE IF Precedes(mode, r, Head(s)) THEN <<r>> \o s
    ELSE <<Head(s)>> \o InsertStable(mode, r, Tail(s))

RECURSIVE SortStable(_, _)
SortStable(mode, s) ==
    IF s = <<>> THEN <<>>
    ELSE InsertStable(mode, s[Len(s)], SortStable(mode, SubSeq(s, 1, Len(s) - 1)))

----------------------------------------------------------------------------
(* get_diversified_universe: the scored universe and its day cache *)

\* Reference metadata merged with the day's grouped bars, already scored:
\* an Energy and a Tech name with exactly equal scores, a second Energy name
\* that clearly outscores them, and two Tech names whose scores differ by less
\* than 1e-10.
Tickers == {"T1", "T2", "T3", "T4"}

Meta(t) ==
    CASE t = "T1" -> [ticker |-> t, sector |-> "Tech",   score |-> 10, pct |-> 10]
      [] t = "T2" -> [ticker |-> t, sector |-> "Energy", score |-> 10, pct |-> 0]
      [] t = "T3" -> [ticker |-> t, sector |-> "Energy", score |-> 30, pct |-> 0]
      [] t = "T4" -> [ticker |-> t, sector |-> "Tech",   score |-> 13, pct |-> 0]

\* uni.groupby("sector")["score"].rank(ascending=False, method="first")
SectorRank(uni, i) ==
    1 + Cardinality({j \in 1..Len(uni) :
            /\ uni[j].sector = uni[i].sector
            /\ \/ uni[j].score > uni[i].score
               \/ uni[j].score = uni[i].score /\ j < i})

WithSectorRank(uni) ==
    [i \in 1..Len(uni) |->
        [ticker |-> uni[i].ticker, sector |-> uni[i].sector, score |-> uni[i].score,
         pct |-> uni[i].pct, sector_rank |-> SectorRank(uni, i)]]

\* DataFrame.to_json writes doubles with 10 decimals: 1e-11 units round to tens.
JsonPrecision == 10

RoundJson(x) == ((x + (JsonPrecision \div 2)) \div JsonPrecision) * JsonPrecision

\* json.loads(uni.to_json(orient="records")): rows keep the frame's order
JsonPayload(uni) ==
    [i \in 1..Len(uni) |->
        [ticker |-> uni[i].ticker, sector |-> uni[i].sector,
         score |-> RoundJson(uni[i].score), pct |-> RoundJson(uni[i].pct),
         sector_rank |-> uni[i].sector_rank]]

\* The cached entry is served when it exists and the build can re-read it.
CacheHit(c, ok) == c # <<>> /\ ok

\* Returns the frame handed to the caller, the cache afterwards and the path taken.
GetDiversifiedUniverse(rows, c, ok) ==
    IF CacheHit(c, ok)
    THEN [frame |-> c[1], cache |-> c, path |-> "cached"]
    ELSE IF rows = <<>>
    THEN [frame |-> <<>>, cache |-> c, path |-> "fresh"]
    ELSE LET uni == WithSectorRank(rows) IN
         [frame |-> SortStable("sector_rank", uni),
          cache |-> <<JsonPayload(uni)>>,
          path  |-> "fresh"]

----------------------------------------------------------------------------
(* _cache_set and _cache_get: the Redis store and the in-process _MEMO *)

CacheKeys == {"universe", "prevclose", "avgvol30"}

\* ttl_seconds of the three _cache_set calls
CACHE_MINUTES == 10
UNIVERSE_TTL == CACHE_MINUTES * 60
PREVCLOSE_TTL == 6 * 3600
AVGVOL_TTL == 12 * 3600

\* ttl_seconds of the _cache_set call that writes the key
TtlOf(key) ==
    CASE key = "universe" -> UNIVERSE_TTL
      [] key = "prevclose" -> PREVCLOSE_TTL
      [] key = "avgvol30" -> AVGVOL_TTL

\* Nothing cached.  store says whether _redis_client() gives a client; redis
\* maps a key to <<[payload, expires]>> and memo to <<payload>>, <<>> when the
\* key is absent; heap holds the dict objects of _avg_vol_map by identity,
\* each as the set of its tickers; sets logs the latest _cache_set per key and
\* before the avgvol30 entries present at the start.
EmptyStore(store) ==
    [store |-> store, clock |-> 0, waits |-> 0,
     redis |-> [key \in CacheKeys |-> <<>>],
     memo  |-> [key \in CacheKeys |-> <<>>],
     heap  |-> <<>>,
     sets  |-> [key \in CacheKeys |-> <<>>],
     before |-> {}]

\* r.get(key): the value while its time-to-live runs
RedisGet(k, key) ==
    IF k.redis[key] # <<>> /\ k.clock < k.redis[key][1].expires
    THEN <<k.redis[key][1].payload>>
    ELSE <<>>

\* _cache_get(key): <<payload>>, or <<>> for None
CacheGet(k, key) ==
    IF k.store = "redis" /\ RedisGet(k, key) # <<>>
    THEN RedisGet(k, key)
    ELSE k.memo[key]

\* _cache_set(key, payload, ttl_seconds): setex on Redis, else _MEMO[key] = payload
CacheSet(k, key, payload, ttl) ==
    LET logged == [k EXCEPT !.sets[key] = <<[at |-> k.clock, ttl |-> ttl]>>]
    IN IF k.store = "redis"
       THEN [logged EXCEPT !.redis[key] =
                <<[payload |-> payload, expires |-> k.clock + ttl]>>]
       ELSE [logged EXCEPT !.memo[key] = <<payload>>]

\* The latest _cache_set of the key is still within its time-to-live
Live(k, key) ==
    k.sets[key] # <<>> /\ k.clock < k.sets[key][1].at + k.sets[key][1].ttl

\* One _cache_get as caller i saw it
GetRecord(k, key, i) ==
    [fn |-> "_cache_get", key |-> key, by |-> i, at |-> k.clock,
     hit |-> CacheGet(k, key) # <<>>, live |-> Live(k, key)]

\* The tickers of the avgvol30 entry a _cache_get would return now.  Redis
\* holds the JSON text of the dict, _MEMO the dict object itself.
AvgVolEntries(k) ==
    LET got == CacheGet(k, "avgvol30")
    IN IF got = <<>> THEN {}
       ELSE IF k.store = "redis" THEN got[1]
       ELSE k.heap[got[1]]

\* existing = _cache_get(base_key) or {}: json.loads builds a new dict, _MEMO
\* hands out the cached dict itself unless it is empty.  Gives the store
\* afterwards and the identity of `existing`.
ReadExisting(k) ==
    LET got == CacheGet(k, "avgvol30")
        copy == [k |-> [k EXCEPT !.heap = Append(@, AvgVolEntries(k))],
                 ref |-> Len(k.heap) + 1]
    IN IF got # <<>> /\ k.store # "redis" /\ k.heap[got[1]] # {}
       THEN [k |-> k, ref |-> got[1]]
       ELSE copy

\* _cache_set(base_key, existing, ttl_seconds=12 * 3600)
SaveExisting(k, ref) ==
    IF k.store = "redis"
    THEN CacheSet(k, "avgvol30", k.heap[ref], AVGVOL_TTL)
    ELSE CacheSet(k, "avgvol30", ref, AVGVOL_TTL)

\* A get_diversified_universe call that has not started
IdleTask ==
    [pc |-> "idle", tickers |-> <<>>, ref |-> 0, todo |-> <<>>,
     out |-> {}, got |-> {}, path |-> "none"]

Callers == 1..2

\* No store in use, no call in flight, no helper call observed
HelpersIdle ==
    /\ kv = EmptyStore("memo")
    /\ tasks = [i \in Callers |-> IdleTask]
    /\ call = {}

----------------------------------------------------------------------------
(* pick_next_batch *)

Fresh_NoFilter(uni, scanned) == uni

\* fresh = uni[~uni["ticker"].isin(already)]
Fresh(uni, scanned) ==
    LET keep(r) == r.ticker \notin scanned IN SelectSeq(uni, keep)

TickersOf(s) == {s[i].ticker : i \in 1..Len(s)}

TickerSeq(s) == [i \in 1..Len(s) |-> s[i].ticker]

SectorGroup_FrameOrder(fresh, sector, min_per_sector) ==
    LET inSector(r) == r.sector = sector
        g == SelectSeq(fresh, inSector)
        take == Min2(min_per_sector, Len(g))
    IN IF take > 0 THEN Head_n(g, take) ELSE <<>>

\* One group of fresh.groupby("sector"), sorted by score then move, cut to take
SectorGroup(fresh, sector, min_per_sector) ==
    LET inSector(r) == r.sector = sector
        g == SortStable("score_pct", SelectSeq(fresh, inSector))
        take == Min2(min_per_sector, Len(g))
    IN IF take > 0 THEN Head_n(g, take) ELSE <<>>

\* groupby iterates the sectors in sorted order
SectorPicks(fresh, min_per_sector) ==
    Flatten([k \in 1..Len(Sectors) |-> SectorGroup(fresh, Sectors[k], min_per_sector)])

\* sort_values("score", ascending=False): one key, the default quicksort
SortByScore(s, kind) ==
    IF kind = "stable" THEN SortStable("score", s)
    ELSE SortStable("score", Reverse(s))

Leftovers(fresh, selected, kind) ==
    LET notSel(r) == r.ticker \notin TickersOf(selected)
    IN SortByScore(SelectSeq(fresh, notSel), kind)

Columns(s) ==
    [i \in 1..Len(s) |->
        [ticker |-> s[i].ticker, sector |-> s[i].sector, score |-> s[i].score]]

PickNextBatch(uni, scanned, batch_size, min_per_sector, kind) ==
    IF uni = <<>> THEN <<>>
    ELSE LET fresh == Fresh(uni, scanned)
             selected == SectorPicks(fresh, min_per_sector)
             want == batch_size - Len(selected)
         IN Columns(IF Len(selected) < batch_size /\ want > 0
                    THEN selected \o Head_n(Leftovers(fresh, selected, kind), want)
                    ELSE selected)

----------------------------------------------------------------------------
(* Batch selection on a fixed day snapshot *)

MaxRows == 3
MaxBatch == 3
MaxMinPerSector == 2
MaxCalls == 2

Universes ==
    {u \in UNION {[1..n -> Tickers] : n \in 0..MaxRows} :
        \A i, j \in 1..Len(u) : i # j => u[i] # u[j]}

\* No run_scan call observed: seen holds the tickers scanned earlier today
IdleCycle(seen) ==
    [at |-> 0, base |-> 0, seen |-> seen, calls |-> {}, failed |-> {},
     status |-> "idle", cause |-> "none", batch |-> <<>>, fetch |-> <<>>,
     scored |-> {}, top5 |-> <<>>, names |-> <<>>, added |-> <<>>]

IdleScan ==
    /\ signals = <<>>
    /\ outcomes = <<>>
    /\ now = 0
    /\ last_run = "none"
    /\ last_check = <<>>
    /\ cycle = IdleCycle({})
    /\ HelpersIdle

BatchInit ==
    /\ \E u \in Universes :
        /\ raw = [i \in 1..Len(u) |-> Meta(u[i])]
        /\ already \in SUBSET Range(u)
    /\ bsz \in 0..MaxBatch
    /\ mps \in 0..MaxMinPerSector
    /\ tie_kind \in {"stable", "reversed"}
    /\ json_ok \in BOOLEAN
    /\ cache = <<>>
    /\ results = <<>>
    /\ IdleScan

\* One call of pick_next_batch on the snapshot
SelectBatch ==
    /\ Len(results) < MaxCalls
    /\ LET u == GetDiversifiedUniverse(raw, cache, json_ok) IN
        /\ cache' = u.cache
        /\ results' = Append(results,
                [batch |-> PickNextBatch(u.frame, already, bsz, mps, tie_kind),
                 path |-> u.path, frame |-> u.frame])
    /\ UNCHANGED <<selectVars, signals, outcomes, now, last_run, last_check, cycle,
                   helperVars>>

\* The entry's time-to-live runs out (cache_minutes)
CacheExpire ==
    /\ cache # <<>>
    /\ cache' = <<>>
    /\ UNCHANGED <<selectVars, results, signals, outcomes, now, last_run, last_check,
                   cycle, helperVars>>

BatchNext == SelectBatch \/ CacheExpire

BatchSpec == BatchInit /\ [][BatchNext]_vars

\* C9: no batch returned by pick_next_batch holds a ticker of the already-scanned
\* set it was called with, in the per-sector picks or in the fill by score.
C9_NoScannedTicker ==
    \A i \in 1..Len(results) : TickersOf(results[i].batch) \cap already = {}

\* A call that dropped a scanned ticker and filled past the per-sector picks
C9_Witness ==
    \E i \in 1..Len(results) :
        /\ already \cap TickersOf(raw) # {}
        /\ SectorPicks(Fresh(raw, already), mps) # <<>>
        /\ Len(results[i].batch) > Len(SectorPicks(Fresh(raw, already), mps))

\* C10: every call of pick_next_batch on the same snapshot, already-scanned set
\* and arguments returns the same tickers in the same order, whether the universe
\* was computed or read from the day cache.
C10_Deterministic ==
    \A i, j \in 1..Len(results) :
        TickerSeq(results[i].batch) = TickerSeq(results[j].batch)

\* The rows of the universe a call worked on that were not scanned today
FreshRows(r) == LET unscanned(x) == x.ticker \notin already IN SelectSeq(r.frame, unscanned)

\* The score the call saw for a ticker
ScoreOf(r, tk) == (CHOOSE x \in Range(r.frame) : x.ticker = tk).score

SectorOf(r, tk) == (CHOOSE x \in Range(r.frame) : x.ticker = tk).sector

FreshIn(r, sector) == {x.ticker : x \in {y \in Range(FreshRows(r)) : y.sector = sector}}

\* min(min_per_sector, number of fresh tickers of the sector)
Quota(r, sector) == Min2(mps, Cardinality(FreshIn(r, sector)))

RECURSIVE QuotaSum(_, _)
QuotaSum(r, k) == IF k = 0 THEN 0 ELSE QuotaSum(r, k - 1) + Quota(r, Sectors[k])

\* C16: a batch starts with, for every sector, min(min_per_sector, fresh count)
\* fresh tickers of the sector, none outscored by a fresh ticker of the sector
\* left out of that part; the rest of the batch holds other fresh tickers in
\* descending score order, none outscored by a fresh ticker left out of the
\* batch, and fills it up to batch_size as far as fresh tickers remain.
C16_SectorFirst ==
    \A i \in 1..Len(results) :
        LET r == results[i]
            b == TickerSeq(r.batch)
            fresh == TickersOf(FreshRows(r))
            n == QuotaSum(r, Len(Sectors))
            first == {b[j] : j \in 1..Min2(n, Len(b))}
        IN /\ Len(b) >= n
           /\ \A j, m \in 1..Len(b) : j # m => b[j] # b[m]
           /\ Range(b) \subseteq fresh
           /\ \A k \in 1..Len(Sectors) :
                LET mine == first \cap FreshIn(r, Sectors[k])
                IN /\ Cardinality(mine) = Quota(r, Sectors[k])
                   /\ \A x \in mine, y \in FreshIn(r, Sectors[k]) \ mine :
                        ScoreOf(r, x) >= ScoreOf(r, y)
           /\ \A j \in (n + 1)..Len(b) :
                /\ j < Len(b) => ScoreOf(r, b[j]) >= ScoreOf(r, b[j + 1])
                /\ \A y \in fresh \ Range(b) : ScoreOf(r, b[j]) >= ScoreOf(r, y)
           /\ Len(b) = n + Min2(Max2(bsz - n, 0), Cardinality(fresh) - n)

\* A call that took one ticker from each of two sectors, the lower-scored
\* Energy name ahead of the Tech name, and then filled one more slot by score
C16_Witness ==
    \E i \in 1..Len(results) :
        LET r == results[i]
            b == TickerSeq(r.batch)
            n == QuotaSum(r, Len(Sectors))
        IN /\ n = 2 /\ Len(b) = 3
           /\ SectorOf(r, b[1]) # SectorOf(r, b[2])
           /\ ScoreOf(r, b[1]) < ScoreOf(r, b[2])

\* C17: no batch returned by pick_next_batch is longer than batch_size.
C17_AtMostBatchSize ==
    \A i \in 1..Len(results) : Len(results[i].batch) <= bsz

----------------------------------------------------------------------------
(* Time: slots of the London day; slot 0 is a Friday morning *)

DaySlots == <<"pre", "window", "post">>

Day(t) == t \div Len(DaySlots)

SlotOf(t) == DaySlots[(t % Len(DaySlots)) + 1]

\* datetime.weekday(): Monday is 0; day 0 of the model is a Friday
Weekday(t) == (Day(t) + 4) % 7

InTradingWindow_AnyDay(t) == SlotOf(t) = "window"

\* in_trading_window: a weekday, 15:00 <= local time <= 21:00
InTradingWindow(t) == Weekday(t) < 5 /\ SlotOf(t) = "window"

HORIZON_DAYS_DEFAULT == 10
BATCH_SIZE == 800
MIN_PER_SECTOR == 40

\* timedelta(days=horizon_days), in slots
Horizon(days) == days * Len(DaySlots)

----------------------------------------------------------------------------
(* Values of a Ranker pick as they arrive in the parsed JSON *)

Absent == [kind |-> "absent", v |-> 0, s |-> <<>>]
Null   == [kind |-> "null",   v |-> 0, s |-> <<>>]
Num(n) == [kind |-> "num",    v |-> n, s |-> <<>>]
Str(c) == [kind |-> "str",    v |-> 0, s |-> c]

\* pick.get(key): a missing key reads as None
IsNone(x) == x.kind \in {"absent", "null"}

Digits == <<"0", "1", "2", "3", "4", "5", "6", "7", "8", "9">>

IsDigit(c) == \E d \in 1..Len(Digits) : Digits[d] = c

DigitVal(c) == (CHOOSE d \in 1..Len(Digits) : Digits[d] = c) - 1

\* .replace("$", "").replace(",", "")
Unpunct(c) == LET keep(x) == x \notin {"$", ","} IN SelectSeq(c, keep)

RECURSIVE Strip(_)
\* .strip()
Strip(c) ==
    IF c = <<>> THEN c
    ELSE IF Head(c) = " " THEN Strip(Tail(c))
    ELSE IF c[Len(c)] = " " THEN Strip(SubSeq(c, 1, Len(c) - 1))
    ELSE c

RECURSIVE DecimalValue(_)
DecimalValue(c) ==
    IF c = <<>> THEN 0
    ELSE DecimalValue(SubSeq(c, 1, Len(c) - 1)) * 10 + DigitVal(c[Len(c)])

\* float(text) / int(text) on whole-number text: a value, or ValueError
ParseNumber(c) ==
    IF c # <<>> /\ \A i \in 1..Len(c) : IsDigit(c[i])
    THEN [raised |-> FALSE, none |-> FALSE, v |-> DecimalValue(c)]
    ELSE [raised |-> TRUE, none |-> FALSE, v |-> 0]

\* _to_float(x): None stays None, anything else goes through str() and float()
ToFloat(x) ==
    IF IsNone(x) THEN [raised |-> FALSE, none |-> TRUE, v |-> 0]
    ELSE IF x.kind = "num" THEN [raised |-> FALSE, none |-> FALSE, v |-> x.v]
    ELSE ParseNumber(Strip(Unpunct(x.s)))

\* int(pick.get("rank", i)): the default only replaces a missing key
ToRank(x, i) ==
    IF x.kind = "absent" THEN [raised |-> FALSE, none |-> FALSE, v |-> i]
    ELSE IF x.kind = "null" THEN [raised |-> TRUE, none |-> FALSE, v |-> 0]
    ELSE IF x.kind = "num" THEN [raised |-> FALSE, none |-> FALSE, v |-> x.v]
    ELSE ParseNumber(Strip(x.s))

\* int(pick.get("stars", 3) or 3), clamped to 1..5; 3 when int() raises
ToStars(x) ==
    LET falsy == IsNone(x) \/ (x.kind = "num" /\ x.v = 0) \/ (x.kind = "str" /\ x.s = <<>>)
        n == IF falsy THEN [raised |-> FALSE, none |-> FALSE, v |-> 3]
             ELSE IF x.kind = "num" THEN [raised |-> FALSE, none |-> FALSE, v |-> x.v]
             ELSE ParseNumber(Strip(x.s))
    IN IF n.raised THEN 3 ELSE Max2(1, Min2(5, n.v))

\* pick.get("direction", "long"); the model holds a direction as a plain string
ToDirection(d) == IF d = "absent" THEN "long" ELSE d

----------------------------------------------------------------------------
(* run_scan *)

TickersScannedToday_Nothing(sigs, t) == {}

\* SELECT DISTINCT ticker FROM signals WHERE created_at >= start of today.
\* The start is midnight UTC of the server's date: during the trading window
\* that is the London day of the model when the server clock runs on UTC or on
\* London time.
TickersScannedToday(sigs, t) ==
    {sigs[i].ticker : i \in {j \in 1..Len(sigs) : Day(sigs[j].created_at) >= Day(t)}}

\* Signal(...) as run_scan constructs it; the close of the latest bar is 100
NewSignal(row, proba, t) ==
    [ticker |-> row.ticker, created_at |-> t, price_at_signal |-> 100,
     sector |-> row.sector, ml_proba |-> proba,
     is_top_pick |-> FALSE, gpt_rank |-> <<>>, stars |-> <<>>,
     target_price |-> <<>>, stop_loss |-> <<>>, direction |-> <<>>,
     company_name |-> <<>>,
     horizon_days |-> HORIZON_DAYS_DEFAULT, window_tag |-> t]

\* if df.empty or len(df) < 30: continue
MIN_BARS == 30

\* How one ticker's turn of the loop goes: exc names the call that raised
\* ("fetch": get_ohlcv_intraday, "score": predict_proba, "flush": db.flush),
\* bars the length of the series, candles the tags of detect_candles, proba the
\* model's probability in percent
Fetched(exc, bars, candles, proba) ==
    [exc |-> exc, bars |-> bars, candles |-> candles, proba |-> proba]

PassesGate_NoCandleCheck(f) == f.exc # "fetch" /\ f.bars >= MIN_BARS

\* The turn gets past both `continue`s: enough bars and at least one candle tag
PassesGate(f) == f.exc # "fetch" /\ f.bars >= MIN_BARS /\ f.candles # {}

\* model.predict_proba is called for the ticker
Scored(f) == PassesGate(f)

\* The turn reaches db.add(sig); db.flush()
ReachesPersist(f) == PassesGate(f) /\ f.exc # "score"

\* The flush of this ticker's Signal goes through on a usable session
PersistsSignal(f) == ReachesPersist(f) /\ f.exc # "flush"

\* One turn of the loop over the batch; st is [added, broken].  The except
\* clause swallows every exception.  A flush that raised leaves the session in
\* a rolled-back transaction that nothing rolls back, so every later flush
\* raises as well (and is swallowed the same way).
ScanTicker(st, row, f, t) ==
    IF ~ReachesPersist(f) THEN st
    ELSE IF st.broken \/ ~PersistsSignal(f) THEN [st EXCEPT !.broken = TRUE]
    ELSE [st EXCEPT !.added = Append(@, NewSignal(row, f.proba, t))]

RECURSIVE ScanFrom(_, _, _, _)
ScanFrom(st, selected, fetch, t) ==
    IF selected = <<>> THEN st
    ELSE ScanFrom(ScanTicker(st, Head(selected), fetch[Head(selected).ticker], t),
                  Tail(selected), fetch, t)

\* The loop over selected.iterrows()
ScanBatch(selected, fetch, t) ==
    ScanFrom([added |-> <<>>, broken |-> FALSE], selected, fetch, t)

\* added_signals: one Signal per batch row whose flush went through, in batch order
AddedSignals(selected, fetch, t) == ScanBatch(selected, fetch, t).added

\* candidates: the added Signals with proba >= 0.60
Candidates(added) ==
    LET clears(sg) == sg.ml_proba >= 60 IN SelectSeq(added, clears)

\* by_ticker.get(t): the last added Signal of that ticker, 0 when there is none
ByTicker(added, t) ==
    LET hits == {k \in 1..Len(added) : added[k].ticker = t}
    IN IF hits = {} THEN 0 ELSE CHOOSE k \in hits : \A m \in hits : m <= k

Outcome(signal_id, t, horizon_days) ==
    [signal_id |-> signal_id, status |-> "PENDING",
     deadline |-> t + Horizon(horizon_days), target_met_at |-> <<>>]

PromotePick_OverwritesPrice(st, i, pick, base, t, names) ==
    LET k == ByTicker(st.added, pick.ticker)
        rank == ToRank(pick.rank, i)
        tp == ToFloat(pick.target_price)
        sl == ToFloat(pick.stop_loss)
        flagged == [st.added EXCEPT ![k].is_top_pick = TRUE,
                                    ![k].gpt_rank = <<rank.v>>]
        promoted == [flagged EXCEPT ![k].target_price = <<tp.v>>,
                                    ![k].stop_loss = <<sl.v>>,
                                    ![k].price_at_signal = tp.v,
                                    ![k].stars = <<ToStars(pick.stars)>>,
                                    ![k].direction = <<ToDirection(pick.direction)>>]
    IN IF k = 0 THEN st
       ELSE IF rank.raised \/ tp.raised \/ sl.raised THEN [st EXCEPT !.raised = TRUE]
       ELSE IF tp.none \/ sl.none THEN [st EXCEPT !.added = flagged]
       ELSE [st EXCEPT !.added = promoted,
                       !.outs = Append(st.outs,
                                    Outcome(base + k, t, st.added[k].horizon_days))]

\* One turn of the loop over top5: st is [added, outs, raised], base the number
\* of committed signals, so that added[k] has id base + k
PromotePick(st, i, pick, base, t, names) ==
    LET k == ByTicker(st.added, pick.ticker)
        rank == ToRank(pick.rank, i)
        tp == ToFloat(pick.target_price)
        sl == ToFloat(pick.stop_loss)
        flagged == [st.added EXCEPT ![k].is_top_pick = TRUE,
                                    ![k].gpt_rank = <<rank.v>>]
        promoted == [flagged EXCEPT ![k].target_price = <<tp.v>>,
                                    ![k].stop_loss = <<sl.v>>,
                                    ![k].stars = <<ToStars(pick.stars)>>,
                                    ![k].direction = <<ToDirection(pick.direction)>>,
                                    ![k].company_name =
                                        IF names[pick.ticker] = "found"
                                        THEN <<"name">> ELSE @]
    IN IF k = 0 THEN st
       ELSE IF rank.raised \/ tp.raised \/ sl.raised THEN [st EXCEPT !.raised = TRUE]
       ELSE IF tp.none \/ sl.none THEN [st EXCEPT !.added = flagged]
       ELSE [st EXCEPT !.added = promoted,
                       !.outs = Append(st.outs,
                                    Outcome(base + k, t, st.added[k].horizon_days))]

RECURSIVE PromoteFrom(_, _, _, _, _, _)
PromoteFrom(st, i, top5, base, t, names) ==
    IF i > Len(top5) \/ st.raised THEN st
    ELSE PromoteFrom(PromotePick(st, i, top5[i], base, t, names),
                     i + 1, top5, base, t, names)

\* selected = pick_next_batch(db, batch_size=BATCH_SIZE)
SelectedBatch(sigs, frame, t, kind) ==
    PickNextBatch(frame, TickersScannedToday(sigs, t), BATCH_SIZE, MIN_PER_SECTOR, kind)

\* top5 = ask_gpt_top5(candidates, ...) if candidates else []
RankerCalled(added) == Candidates(added) # <<>>

\* The loop over top5: what db.commit() would write, or raised
Promote(added, top5, base, t, names) ==
    PromoteFrom([added |-> added, outs |-> <<>>, raised |-> FALSE],
                1, top5, base, t, names)

\* get_company_name: a name, or an exception the caller swallows; a lookup
\* that returns None leaves the Signal exactly as a failed one does
NameResults == {"found", "error"}

NoNames(added) == [tk \in TickersOf(added) |-> "error"]

\* The tickers whose pick gets as far as get_company_name
LookedUp(added, top5, base, t) ==
    {added[o.signal_id - base].ticker :
        o \in Range(Promote(added, top5, base, t, NoNames(added)).outs)}

----------------------------------------------------------------------------
(* Scan cycles over the committed tables *)

MaxSignals == 2
MaxNow == 10

\* How fetch, bar count, candle gate, scoring and flush can go for one ticker
FetchResults ==
    {Fetched("fetch", 0, {}, 0),
     Fetched("none", 29, {"Hammer"}, 60),
     Fetched("none", 30, {}, 60),
     Fetched("none", 30, {"Hammer"}, 59),
     Fetched("none", 30, {"Hammer"}, 60),
     Fetched("score", 30, {"Hammer"}, 0),
     Fetched("flush", 30, {"Hammer"}, 60)}

Pick(t, rank, stars, target, stop, direction) ==
    [ticker |-> t, rank |-> rank, stars |-> stars, target_price |-> target,
     stop_loss |-> stop, direction |-> direction]

\* What the Ranker may send back for one pick
PickSet ==
    {Pick("T1", Absent, Absent, Num(110), Num(95), "absent"),
     Pick("T1", Num(1), Num(4), Str(<<"$", "9", "0">>), Num(105), "short"),
     Pick("T1", Absent, Absent, Null, Num(95), "long"),
     Pick("T1", Absent, Absent, Num(110), Absent, "long"),
     Pick("T1", Absent, Absent, Str(<<"n", "/", "a">>), Num(95), "long"),
     Pick("T1", Null, Absent, Num(110), Num(95), "long"),
     Pick("T2", Absent, Num(9), Num(110), Num(95), "long"),
     Pick("ZZ", Absent, Absent, Num(110), Num(95), "long")}

\* The Ranker's reply: up to two picks, in any order, repeats included
RankerReplies ==
    {<<>>} \cup {<<p>> : p \in PickSet} \cup {<<p, q>> : p \in PickSet, q \in PickSet}

ScanUniverse == <<Meta("T1"), Meta("T2")>>

Init ==
    /\ raw = ScanUniverse
    /\ already = {}
    /\ bsz = BATCH_SIZE
    /\ mps = MIN_PER_SECTOR
    /\ tie_kind = "stable"
    /\ json_ok = TRUE
    /\ cache = <<>>
    /\ results = <<>>
    /\ signals = <<>>
    /\ outcomes = <<>>
    /\ now = 0
    /\ last_run = "none"
    /\ last_check = <<>>
    /\ cycle = IdleCycle({})
    /\ HelpersIdle

\* ask_gpt_top5 is best-effort: a call that fails gives no picks
AskGptTop5(answer) == IF answer.ok THEN answer.picks ELSE <<>>

\* How the Ranker call can go; it is made only when there are candidates
RankerAnswers(added) ==
    IF RankerCalled(added)
    THEN {[ok |-> FALSE, picks |-> <<>>]} \cup {[ok |-> TRUE, picks |-> p] : p \in RankerReplies}
    ELSE {[ok |-> TRUE, picks |-> <<>>]}

\* The collaborators a cycle called, and those whose call failed
CallsOf(selected, added, looked) ==
    {"universe"}
        \cup (IF selected # <<>> THEN {"ohlcv"} ELSE {})
        \cup (IF RankerCalled(added) THEN {"ranker"} ELSE {})
        \cup (IF looked # {} THEN {"name"} ELSE {})

FailedOf(selected, fetch, answer, names) ==
    (IF \E tk \in TickersOf(selected) : fetch[tk].exc = "fetch" THEN {"ohlcv"} ELSE {})
        \cup (IF answer.ok THEN {} ELSE {"ranker"})
        \cup (IF \E tk \in DOMAIN names : names[tk] = "error" THEN {"name"} ELSE {})

\* run_scan, one whole cycle
RunScan ==
    /\ Len(signals) < MaxSignals
    /\ cycle.status = "idle"
    /\ LET began == [cycle EXCEPT !.at = now, !.base = Len(signals)]
       IN
       \/ /\ ~InTradingWindow(now)
          /\ last_run' = "skipped"
          /\ cycle' = [began EXCEPT !.status = "skipped"]
          /\ UNCHANGED <<signals, outcomes, cache>>
       \/ /\ InTradingWindow(now)      \* the model file is missing
          /\ last_run' = "skipped"
          /\ cycle' = [began EXCEPT !.status = "skipped"]
          /\ UNCHANGED <<signals, outcomes, cache>>
       \/ /\ InTradingWindow(now)      \* the universe is rebuilt and a request fails
          /\ ~CacheHit(cache, json_ok)
          /\ last_run' = "raised"
          /\ \E c \in {"reference_page", "grouped_bars"} :
                cycle' = [began EXCEPT !.status = "raised", !.calls = {"universe"},
                                       !.failed = {c}, !.cause = c]
          /\ UNCHANGED <<signals, outcomes, cache>>
       \/ /\ InTradingWindow(now)
          /\ LET u == GetDiversifiedUniverse(raw, cache, json_ok)
                 selected == SelectedBatch(signals, u.frame, now, tie_kind)
                 base == Len(signals)
             IN /\ cache' = u.cache
                /\ \E fetch \in [TickersOf(selected) -> FetchResults] :
                      LET scan == ScanBatch(selected, fetch, now)
                          added == scan.added IN
                      \E answer \in RankerAnswers(added) :
                          LET top5 == AskGptTop5(answer)
                              looked == LookedUp(added, top5, base, now) IN
                          \E names \in [looked -> NameResults] :
                              LET r == Promote(added, top5, base, now, names)
                                  raised == r.raised \/ scan.broken
                              IN /\ cycle' = [began EXCEPT
                                        !.status = IF raised THEN "raised" ELSE "returned",
                                        !.cause = IF r.raised THEN "promotion"
                                                  ELSE IF scan.broken THEN "commit"
                                                  ELSE "none",
                                        !.calls = CallsOf(selected, added, looked),
                                        !.failed = FailedOf(selected, fetch, answer, names),
                                        !.batch = TickerSeq(selected),
                                        !.fetch = fetch,
                                        !.scored = {tk \in TickersOf(selected) :
                                                        Scored(fetch[tk])},
                                        !.top5 = top5,
                                        !.names = names,
                                        !.added = added]
                                 /\ IF raised
                                    THEN /\ last_run' = "raised"
                                         /\ UNCHANGED <<signals, outcomes>>
                                    ELSE /\ last_run' = "committed"
                                         /\ signals' = signals \o r.added
                                         /\ outcomes' = outcomes \o r.outs
    /\ UNCHANGED <<selectVars, results, now, last_check, helperVars>>

\* The worker sleeps until its next cycle: the tickers of the batch count as
\* scanned today from now on
Rest ==
    /\ cycle.status # "idle"
    /\ cycle' = IdleCycle(cycle.seen \cup Range(cycle.batch))
    /\ UNCHANGED <<selectVars, cache, results, signals, outcomes, now, last_run,
                   last_check, helperVars>>

\* Time passes; the cache key universe:<day> changes with the day
Advance(limit) ==
    /\ now < limit
    /\ now' = now + 1
    /\ cache' = IF Day(now + 1) # Day(now) THEN <<>> ELSE cache
    /\ cycle' = IdleCycle(IF Day(now + 1) # Day(now) THEN {}
                          ELSE cycle.seen \cup Range(cycle.batch))
    /\ UNCHANGED <<selectVars, results, signals, outcomes, last_run, last_check,
                   helperVars>>

Tick == Advance(MaxNow)

Next == RunScan \/ Rest \/ Tick

Spec == Init /\ [][Next]_vars

\* The cycles of one trading day, Friday, and of the Saturday that follows
MaxDayNow == 4

DayTick == Advance(MaxDayNow)

DayNext == RunScan \/ Rest \/ DayTick

DaySpec == Init /\ [][DayNext]_vars

OutcomesOf(i) == {j \in 1..Len(outcomes) : outcomes[j].signal_id = i}

\* C1: every committed Signal is a top pick exactly when its target and stop are
\* both set and exactly one Outcome references it.
C1_TopPickIffTargetStopOutcome ==
    \A i \in 1..Len(signals) :
        signals[i].is_top_pick <=>
            /\ signals[i].target_price # <<>>
            /\ signals[i].stop_loss # <<>>
            /\ Cardinality(OutcomesOf(i)) = 1

\* C2: no committed Signal is referenced by two Outcome records.
C2_AtMostOneOutcome ==
    \A i \in 1..Len(signals) : Cardinality(OutcomesOf(i)) <= 1

----------------------------------------------------------------------------
(* One cycle of run_scan, as the cycle record shows it *)

\* The committed row of the k-th Signal the cycle added
Committed(k) == signals[cycle.base + k]

Collaborators == {"reference_page", "grouped_bars", "ohlcv", "ranker", "name"}

\* C11: run_scan never raises because a collaborator's call failed (a reference
\* page, the grouped daily bars, a ticker's OHLCV, the Ranker, a company name):
\* it returns normally, having skipped the ticker or the cycle.
C11_NeverRaises ==
    ~ /\ cycle.status = "raised"
      /\ cycle.cause \in cycle.failed \cap Collaborators

\* target_price or stop_loss of the pick is missing or is not a number
BadPrices(p) ==
    \/ ToFloat(p.target_price).none \/ ToFloat(p.target_price).raised
    \/ ToFloat(p.stop_loss).none \/ ToFloat(p.stop_loss).raised

Unpromoted(sg) ==
    /\ ~sg.is_top_pick
    /\ sg.gpt_rank = <<>> /\ sg.stars = <<>>
    /\ sg.target_price = <<>> /\ sg.stop_loss = <<>>

\* C12: when the Ranker's reply holds a pick whose target or stop is missing or
\* unparseable, the cycle still commits its Signals, the Signal named by that
\* pick stays unpromoted with no Outcome (unless another pick promotes it) and
\* every well-formed pick of the reply is promoted with its Outcome.
C12_BadPickIsolated ==
    \A i \in 1..Len(cycle.top5) :
        LET p == cycle.top5[i]
            k == ByTicker(cycle.added, p.ticker)
        IN (BadPrices(p) /\ k # 0 /\ cycle.cause # "commit") =>
            /\ cycle.status = "returned"
            /\ (\A j \in 1..Len(cycle.top5) :
                    cycle.top5[j].ticker = p.ticker => BadPrices(cycle.top5[j]))
                => Unpromoted(Committed(k)) /\ OutcomesOf(cycle.base + k) = {}
            /\ \A j \in 1..Len(cycle.top5) :
                    LET q == cycle.top5[j]
                        m == ByTicker(cycle.added, q.ticker)
                    IN (~BadPrices(q) /\ m # 0) =>
                        /\ Committed(m).is_top_pick
                        /\ Committed(m).target_price # <<>>
                        /\ OutcomesOf(cycle.base + m) # {}

\* The turn of the i-th batch ticker raised an exception
TurnRaised(i) == cycle.fetch[cycle.batch[i]].exc # "none"

\* C13: when the turn of a batch ticker raises, every later ticker is still
\* processed (a later ticker that passes the gate without an exception gets
\* its Signal) and the Signals the cycle added are committed when it ends.
C13_TickerErrorIsolated ==
    \A i \in 1..Len(cycle.batch) :
        (TurnRaised(i) /\ cycle.cause # "promotion") =>
            /\ \A j \in (i + 1)..Len(cycle.batch) :
                    LET f == cycle.fetch[cycle.batch[j]]
                    IN (f.exc = "none" /\ f.bars >= 30 /\ f.candles # {})
                        => cycle.batch[j] \in TickersOf(cycle.added)
            /\ cycle.status = "returned"
            /\ Len(signals) = cycle.base + Len(cycle.added)
            /\ \A k \in 1..Len(cycle.added) :
                    Committed(k).ticker = cycle.added[k].ticker

\* The fields a Signal has before promotion, the indicator snapshot without
\* the company name
PrePromotion(sg) ==
    [ticker |-> sg.ticker, created_at |-> sg.created_at,
     price_at_signal |-> sg.price_at_signal, sector |-> sg.sector,
     ml_proba |-> sg.ml_proba, horizon_days |-> sg.horizon_days,
     window_tag |-> sg.window_tag]

\* C14 as amended: a committed top pick keeps its position (identifier), ticker,
\* creation time, price_at_signal, horizon_days, window_tag and every entry its
\* indicator snapshot had when it was added; promotion may add company_name to
\* the snapshot.
C14_PromotionFrame ==
    cycle.status = "returned" =>
        \A k \in 1..Len(cycle.added) :
            Committed(k).is_top_pick =>
                PrePromotion(Committed(k)) = PrePromotion(cycle.added[k])

\* A committed top pick whose snapshot gained the company name
C14_Witness ==
    /\ cycle.status = "returned"
    /\ \E k \in 1..Len(cycle.added) :
            /\ Committed(k).is_top_pick
            /\ Committed(k).target_price # <<>>
            /\ Committed(k).company_name # <<>>

\* C14 as stated: promotion leaves every pre-promotion field unchanged, the
\* whole indicator snapshot included.
C14_SnapshotUnchanged ==
    cycle.status = "returned" =>
        \A k \in 1..Len(cycle.added) :
            Committed(k).is_top_pick =>
                /\ PrePromotion(Committed(k)) = PrePromotion(cycle.added[k])
                /\ Committed(k).company_name = cycle.added[k].company_name

\* London local day is Saturday or Sunday, or local time is outside 15:00..21:00
OutsideWindow(t) == Weekday(t) \in {5, 6} \/ SlotOf(t) # "window"

\* C15: a run_scan call made outside the trading window creates no Signal and
\* no Outcome and calls no collaborator.
C15_OutsideWindowNoOp ==
    [][(cycle.status = "idle" /\ cycle'.status # "idle" /\ OutsideWindow(now)) =>
            /\ signals' = signals
            /\ outcomes' = outcomes
            /\ cycle'.calls = {}
            /\ cycle'.batch = <<>>]_vars

\* A cycle started on Saturday between 15:00 and 21:00, after Friday's Signals
C15_Witness ==
    /\ cycle.status = "skipped"
    /\ Weekday(cycle.at) = 5 /\ SlotOf(cycle.at) = "window"
    /\ signals # <<>>

\* C18: the Signals a cycle adds are those of the batch tickers whose series has
\* at least 30 bars, whose candle tags are not empty and whose turn raised no
\* exception (its own, or the flush error an earlier failed flush leaves behind),
\* whatever their probability; a ticker without a candle tag is never scored.
C18_CandleGate ==
    cycle.status \in {"returned", "raised"} =>
        /\ \A i \in 1..Len(cycle.batch) :
            LET f == cycle.fetch[cycle.batch[i]]
                earlier == \E j \in 1..(i - 1) : cycle.fetch[cycle.batch[j]].exc = "flush"
            IN /\ cycle.batch[i] \in TickersOf(cycle.added) <=>
                    /\ f.bars >= 30
                    /\ f.candles # {}
                    /\ f.exc = "none" /\ ~earlier
               /\ f.candles = {} => cycle.batch[i] \notin cycle.scored
        /\ TickersOf(cycle.added) \subseteq Range(cycle.batch)

\* A cycle that added a Signal below the promotion threshold and dropped a
\* ticker with 30 bars and no candle tag
C18_Witness ==
    /\ cycle.status = "returned"
    /\ \E k \in 1..Len(cycle.added) : cycle.added[k].ml_proba < 60
    /\ \E i \in 1..Len(cycle.batch) :
            /\ cycle.fetch[cycle.batch[i]].bars >= 30
            /\ cycle.fetch[cycle.batch[i]].candles = {}

\* C19: a committed top pick has a probability of at least 0.60, so it was among
\* the candidates sent to the Ranker; a pick naming any other ticker promotes
\* nothing.
C19_OnlyCandidatesPromoted ==
    \A i \in 1..Len(signals) :
        (signals[i].is_top_pick \/ OutcomesOf(i) # {}) => signals[i].ml_proba >= 60

\* C20: the batch of a cycle holds no ticker that was in the batch of an earlier
\* cycle of the same day.
C20_SameDayExclusion == Range(cycle.batch) \cap cycle.seen = {}

----------------------------------------------------------------------------
(* get_diversified_universe calls over the stores, within one calendar day *)

MaxWaits == 2

DAY_SECONDS == 24 * 3600

\* How long a caller may sleep between two steps
WaitSteps == {UNIVERSE_TTL \div 2, UNIVERSE_TTL, PREVCLOSE_TTL}

\* vol_sorted["ticker"].tolist(): the merged universe changes through the day
TickerLists == {<<"T1", "T2">>, <<"T2", "T3">>}

\* The avgvol30 entries an earlier refresh of the day left behind
EarlierEntries == {{}, {"T4"}}

\* The store after an earlier refresh saved the entries at the start of the day
StoreAfter(store, entries) ==
    LET k == [EmptyStore(store) EXCEPT !.heap = <<entries>>, !.before = entries]
    IN SaveExisting(k, 1)

CacheInit ==
    /\ raw = ScanUniverse
    /\ already = {}
    /\ bsz = BATCH_SIZE
    /\ mps = MIN_PER_SECTOR
    /\ tie_kind = "stable"
    /\ json_ok = TRUE
    /\ cache = <<>>
    /\ results = <<>>
    /\ signals = <<>>
    /\ outcomes = <<>>
    /\ now = 0
    /\ last_run = "none"
    /\ last_check = <<>>
    /\ cycle = IdleCycle({})
    /\ \E store \in {"redis", "memo"}, entries \in EarlierEntries :
            kv = IF entries = {} THEN EmptyStore(store) ELSE StoreAfter(store, entries)
    /\ tasks = [i \in Callers |-> IdleTask]
    /\ call = {}

scanVars == <<raw, already, bsz, mps, tie_kind, json_ok, cache, results,
              signals, outcomes, now, last_run, last_check, cycle>>

\* cached = _cache_get(cache_key); a readable entry is returned as it is,
\* otherwise the reference pages and the day's grouped bars are requested
UniverseBegin(i) ==
    /\ tasks[i].pc = "idle"
    /\ call' = {GetRecord(kv, "universe", i)}
    /\ IF CacheHit(CacheGet(kv, "universe"), json_ok)
       THEN tasks' = [tasks EXCEPT ![i].pc = "done", ![i].path = "cached"]
       ELSE \E tickers \in TickerLists :
                tasks' = [tasks EXCEPT ![i].pc = "history", ![i].tickers = tickers]
    /\ UNCHANGED <<scanVars, kv>>

\* _prev_close_map() up to its _cache_set, then _avg_vol_map up to its first
\* request: existing is read and the tickers it lacks are queued
UniverseHistory(i) ==
    /\ tasks[i].pc = "history"
    /\ LET k1 == IF CacheGet(kv, "prevclose") # <<>> THEN kv
                 ELSE CacheSet(kv, "prevclose", "closes", PREVCLOSE_TTL)
           r == ReadExisting(k1)
           existing == r.k.heap[r.ref]
           inCache(t) == t \in existing
           missing(t) == t \notin existing
           to_fetch == SelectSeq(tasks[i].tickers, missing)
       IN /\ kv' = r.k
          /\ call' = {GetRecord(kv, "prevclose", i), GetRecord(k1, "avgvol30", i)}
          /\ tasks' = [tasks EXCEPT
                ![i].pc = IF to_fetch = <<>> THEN "save" ELSE "fetch",
                ![i].ref = r.ref,
                ![i].todo = to_fetch,
                ![i].out = Range(SelectSeq(tasks[i].tickers, inCache))]
    /\ UNCHANGED scanVars

\* avgv = _avg_volume_30d_for_ticker(t); a failed request gives None
UniverseFetch(i) ==
    /\ tasks[i].pc = "fetch"
    /\ LET t == Head(tasks[i].todo)
           rest == Tail(tasks[i].todo)
           pc == IF rest = <<>> THEN "save" ELSE "fetch"
       IN \/ /\ kv' = [kv EXCEPT !.heap[tasks[i].ref] = @ \cup {t}]
             /\ tasks' = [tasks EXCEPT ![i].pc = pc, ![i].todo = rest,
                                       ![i].out = @ \cup {t},
                                       ![i].got = @ \cup {t}]
          \/ /\ kv' = kv
             /\ tasks' = [tasks EXCEPT ![i].pc = pc, ![i].todo = rest]
    /\ call' = {}
    /\ UNCHANGED scanVars

\* _cache_set(base_key, existing, ...), the liquidity filter on the tickers
\* with an average volume, then _cache_set(cache_key, payload, ...)
UniverseSave(i) ==
    /\ tasks[i].pc = "save"
    /\ LET liquid(t) == t \in tasks[i].out
           payload == SelectSeq(tasks[i].tickers, liquid)
       IN kv' = CacheSet(SaveExisting(kv, tasks[i].ref), "universe", payload,
                         UNIVERSE_TTL)
    /\ tasks' = [tasks EXCEPT ![i].pc = "done", ![i].path = "fresh"]
    /\ call' = {}
    /\ UNCHANGED scanVars

\* Time passes, within the day the cache keys name
Wait(d) ==
    /\ kv.waits < MaxWaits
    /\ kv.clock + d < DAY_SECONDS
    /\ kv' = [kv EXCEPT !.clock = @ + d, !.waits = @ + 1]
    /\ call' = {}
    /\ UNCHANGED <<scanVars, tasks>>

CacheNext ==
    \/ \E i \in Callers :
            UniverseBegin(i) \/ UniverseHistory(i) \/ UniverseFetch(i) \/ UniverseSave(i)
    \/ \E d \in WaitSteps : Wait(d)

CacheSpec == CacheInit /\ [][CacheNext]_vars

\* C22: when two refreshes of the day's avgvol30 entry have both finished, in
\* whatever order their steps ran, every ticker that was in the entry before
\* or that either refresh resolved is in the entry (read before it expires).
C22_RefreshMerges ==
    (/\ \A i \in Callers : tasks[i].pc = "done" /\ tasks[i].path = "fresh"
     /\ kv.clock < AVGVOL_TTL)
        => (kv.before \cup UNION {tasks[i].got : i \in Callers})
                \subseteq AvgVolEntries(kv)

\* C23: a _cache_get returns an entry only while the time-to-live of the
\* _cache_set that wrote it runs, with Redis and with _MEMO, so a
\* get_diversified_universe call made after that recomputes the universe.
C23_EntriesExpire ==
    /\ \A c \in call : (c.fn = "_cache_get" /\ c.hit) => c.live
    /\ \A c \in call :
            (c.fn = "_cache_get" /\ c.key = "universe" /\ ~c.live)
                => tasks[c.by].pc = "history"

----------------------------------------------------------------------------
(* The stars of a promoted pick *)

MaxStarsLen == 3

StarChars == {"0", "4", "9", "x", " "}

\* What the Ranker may send as "stars": nothing, null, a number or a text
StarsValues ==
    {Absent, Null} \cup {Num(n) : n \in -1..7}
        \cup {Str(c) : c \in UNION {[1..n -> StarChars] : n \in 0..MaxStarsLen}}

\* The Signal of T1 as the scan loop added it, and a well-formed pick for it
StarsPick(x) == Pick("T1", Absent, x, Num(110), Num(95), "long")

StarsInit ==
    /\ raw = ScanUniverse
    /\ already = {}
    /\ bsz = BATCH_SIZE
    /\ mps = MIN_PER_SECTOR
    /\ tie_kind = "stable"
    /\ json_ok = TRUE
    /\ cache = <<>>
    /\ results = <<>>
    /\ signals = <<>>
    /\ outcomes = <<>>
    /\ now = 1
    /\ last_run = "none"
    /\ last_check = <<>>
    /\ cycle = IdleCycle({})
    /\ kv = EmptyStore("memo")
    /\ tasks = [i \in Callers |-> IdleTask]
    /\ \E x \in StarsValues :
            call = {[fn |-> "promote", stars |-> x, done |-> FALSE, out |-> <<>>]}

\* The promotion loop of run_scan over a reply of one pick
PromoteStars ==
    /\ \E c \in call :
            /\ ~c.done
            /\ LET added == <<NewSignal(Meta("T1"), 60, now)>>
                   r == Promote(added, <<StarsPick(c.stars)>>, 0, now, NoNames(added))
               IN call' = {[c EXCEPT !.done = TRUE, !.out = r.added[1].stars]}
    /\ UNCHANGED <<scanVars, kv, tasks>>

StarsNext == PromoteStars

StarsSpec == StarsInit /\ [][StarsNext]_vars

\* The stars value read as an integer: <<v>>, or <<>> when it is absent or
\* is no integer
StarsAsInteger(x) ==
    IF x.kind = "num" THEN <<x.v>>
    ELSE IF x.kind = "str" /\ ~ParseNumber(Strip(x.s)).raised
    THEN <<ParseNumber(Strip(x.s)).v>>
    ELSE <<>>

\* C24: the stars of a promoted Signal are min(5, max(1, v)) when the
\* Ranker's stars value is an integer v, and 3 when it is absent or is no
\* integer; they lie in 1..5.
C24_StarsClamped ==
    \A c \in call :
        (c.fn = "promote" /\ c.done) =>
            /\ c.out # <<>> /\ c.out[1] \in 1..5
            /\ LET v == StarsAsInteger(c.stars)
               IN c.out[1] = IF v = <<>> THEN 3 ELSE Min2(5, Max2(1, v[1]))

----------------------------------------------------------------------------
(* detect_strategies on the latest enriched row, and the tags of a Signal *)

\* The columns of the enriched frame, in the order get_ohlcv_intraday and
\* calculate_indicators create them; a row is a Series indexed by them
RowColumns ==
    <<"Open", "High", "Low", "Close", "Volume", "rsi", "ema5", "ema20",
      "macd", "macd_signal", "bb_mid", "bb_high", "bb_low">>

ColumnAt(c) == CHOOSE i \in 1..Len(RowColumns) : RowColumns[i] = c

\* row.shift(1)[c]: a Series shifts along its own index, so the value is the
\* one the row holds in the column before c; NaN (<<>>) for the first column
Shifted(row, c) ==
    IF ColumnAt(c) = 1 THEN <<>> ELSE <<row[RowColumns[ColumnAt(c) - 1]]>>

\* pd.isna
IsNa(x) == x = <<>>

\* list(dict.fromkeys(tags))
RECURSIVE FirstSeen(_)
FirstSeen(tags) ==
    IF tags = <<>> THEN <<>>
    ELSE LET front == FirstSeen(SubSeq(tags, 1, Len(tags) - 1))
             last == tags[Len(tags)]
         IN IF last \in Range(front) THEN front ELSE Append(front, last)

TagIf(cond, tag) == IF cond THEN <<tag>> ELSE <<>>

\* detect_strategies(row), before the final de-duplication
StrategyTagsRaw(row) ==
    LET prev_ema5 == Shifted(row, "ema5")
        prev_ema20 == Shifted(row, "ema20")
        prev_macd == Shifted(row, "macd")
        prev_macd_sig == Shifted(row, "macd_signal")
        crossovers ==
            IF IsNa(prev_ema5) THEN <<>>
            ELSE TagIf(row["rsi"] < 35, "RSI Oversold")
                 \o TagIf(row["ema5"] > row["ema20"] /\ prev_ema5[1] <= prev_ema20[1],
                          "EMA Bullish Crossover")
                 \o TagIf(row["macd"] > row["macd_signal"]
                             /\ prev_macd[1] <= prev_macd_sig[1],
                          "MACD Bullish Crossover")
        lower == IF row["Close"] <= row["bb_low"]
                 THEN <<"BB Lower Touch">>
                      \o TagIf(row["rsi"] < 35, "BB Lower + RSI Oversold")
                 ELSE <<>>
        upper == IF row["Close"] >= row["bb_high"]
                 THEN <<"BB Upper Touch">>
                      \o TagIf(row["rsi"] > 65, "BB Upper + RSI Overbought")
                 ELSE <<>>
    IN crossovers \o lower \o upper

DetectStrategies(row) == FirstSeen(StrategyTagsRaw(row))

\* The orders list(set(tags)) can come out in: the iteration order of a set
\* of strings follows their hashes, which change from process to process
SetOrders(tags) ==
    {o \in [1..Cardinality(Range(tags)) -> Range(tags)] :
        \A i, j \in DOMAIN o : i # j => o[i] # o[j]}

\* The latest bar of a series: prices between the Bollinger bands at 90 and
\* 110 or on a band, RSI, the two EMAs and the MACD pair
LatestRow(close, rsi, ema5, ema20, macd, macd_signal) ==
    [c \in Range(RowColumns) |->
        CASE c = "Close" -> close
          [] c = "rsi" -> rsi
          [] c = "ema5" -> ema5
          [] c = "ema20" -> ema20
          [] c = "macd" -> macd
          [] c = "macd_signal" -> macd_signal
          [] c = "bb_low" -> 90
          [] c = "bb_high" -> 110
          [] c = "Volume" -> 1000
          [] OTHER -> 100]

LatestRows ==
    {LatestRow(close, rsi, ema5, ema20, macd, macd_signal) :
        close \in {90, 100, 110}, rsi \in {30, 50, 70},
        ema5 \in {40, 100}, ema20 \in {30, 99},
        macd \in {-1, 1}, macd_signal \in {0}}

\* detect_candles appends "Bullish Engulfing" before "Hammer"; the scan goes
\* on only with at least one candle tag
CandleTagLists == {<<"Hammer">>, <<"Bullish Engulfing">>, <<"Bullish Engulfing", "Hammer">>}

TagInit ==
    /\ raw = ScanUniverse
    /\ already = {}
    /\ bsz = BATCH_SIZE
    /\ mps = MIN_PER_SECTOR
    /\ tie_kind = "stable"
    /\ json_ok = TRUE
    /\ cache = <<>>
    /\ results = <<>>
    /\ signals = <<>>
    /\ outcomes = <<>>
    /\ now = 1
    /\ last_run = "none"
    /\ last_check = <<>>
    /\ cycle = IdleCycle({})
    /\ kv = EmptyStore("memo")
    /\ tasks = [i \in Callers |-> IdleTask]
    /\ \E row \in LatestRows, candle_tags \in CandleTagLists :
            call = {[fn |-> "tags", row |-> row, candle_tags |-> candle_tags,
                     done |-> FALSE, raw_tags |-> <<>>, strategy_tags |-> <<>>,
                     all_tags |-> <<>>]}

\* latest = df.iloc[-1]; strategy_tags = detect_strategies(latest);
\* all_tags = list(set(strategy_tags + candle_tags))
TagSignal ==
    /\ \E c \in call :
            /\ ~c.done
            /\ LET strategy_tags == DetectStrategies(c.row)
               IN \E all_tags \in SetOrders(strategy_tags \o c.candle_tags) :
                    call' = {[c EXCEPT !.done = TRUE,
                                       !.raw_tags = StrategyTagsRaw(c.row),
                                       !.strategy_tags = strategy_tags,
                                       !.all_tags = all_tags]}
    /\ UNCHANGED <<scanVars, kv, tasks>>

TagNext == TagSignal

TagSpec == TagInit /\ [][TagNext]_vars

\* C25: detect_strategies, given only the latest row, emits neither the EMA
\* nor the MACD bullish-crossover tag (no previous bar is at hand to compare).
C25_NoCrossoverTags ==
    \A c \in call :
        (c.fn = "tags" /\ c.done) =>
            /\ "EMA Bullish Crossover" \notin Range(c.strategy_tags)
            /\ "MACD Bullish Crossover" \notin Range(c.strategy_tags)

\* Every tag of the list once, in the order of its first occurrence
IsFirstSeenOrder(out, tags) ==
    /\ Range(out) = Range(tags)
    /\ \A i, j \in 1..Len(out) : i # j => out[i] # out[j]
    /\ \A i, j \in 1..Len(out) :
            i < j =>
                (CHOOSE m \in 1..Len(tags) :
                    tags[m] = out[i] /\ \A n \in 1..(m - 1) : tags[n] # out[i])
              < (CHOOSE m \in 1..Len(tags) :
                    tags[m] = out[j] /\ \A n \in 1..(m - 1) : tags[n] # out[j])

\* C26: the list detect_strategies returns, and the all_tags list of a Signal
\* (strategy tags followed by candle tags), hold each tag once, in the order
\* of its first occurrence.
C26_FirstSeenOrder ==
    \A c \in call :
        (c.fn = "tags" /\ c.done) =>
            /\ IsFirstSeenOrder(c.strategy_tags, c.raw_tags)
            /\ IsFirstSeenOrder(c.all_tags, c.strategy_tags \o c.candle_tags)

----------------------------------------------------------------------------
(* Outcome Tracker (spec.md 4.5) over the picks of one scan cycle *)

MaxTrackNow == 34

\* Prices a check may sample: at or past either target, past either stop, or flat
Prices == {88, 90, 100, 110, 112}

TargetReached_IgnoresDirection(sig, price) == price >= sig.target_price[1]

\* for "long", reached when price >= target; for "short", when price <= target
TargetReached(sig, price) ==
    IF sig.direction = <<"short">>
    THEN price <= sig.target_price[1]
    ELSE price >= sig.target_price[1]

CheckOutcome_NoTimestamp(o, sig, price, t) ==
    IF t >= o.deadline /\ ~TargetReached(sig, price)
    THEN [o EXCEPT !.status = "NOT_MET"]
    ELSE IF TargetReached(sig, price)
    THEN [o EXCEPT !.status = "MET"]
    ELSE o

CheckOutcome_StopLoss(o, sig, price, t) ==
    IF TargetReached(sig, price)
    THEN [o EXCEPT !.status = "MET", !.target_met_at = <<t>>]
    ELSE IF \/ t >= o.deadline
            \/ sig.direction = <<"short">> /\ price >= sig.stop_loss[1]
            \/ sig.direction # <<"short">> /\ price <= sig.stop_loss[1]
    THEN [o EXCEPT !.status = "NOT_MET"]
    ELSE o

CheckOutcome_DeadlineFirst(o, sig, price, t) ==
    IF t >= o.deadline
    THEN [o EXCEPT !.status = "NOT_MET"]
    ELSE IF TargetReached(sig, price)
    THEN [o EXCEPT !.status = "MET", !.target_met_at = <<t>>]
    ELSE o

CheckOutcome_NeverLapses(o, sig, price, t) ==
    IF TargetReached(sig, price)
    THEN [o EXCEPT !.status = "MET", !.target_met_at = <<t>>]
    ELSE o

\* The transition rule applied to one sampled outcome
CheckOutcome(o, sig, price, t) ==
    IF t >= o.deadline /\ ~TargetReached(sig, price)
    THEN [o EXCEPT !.status = "NOT_MET"]
    ELSE IF TargetReached(sig, price)
    THEN [o EXCEPT !.status = "MET", !.target_met_at = <<t>>]
    ELSE o

Sampled_EveryOutcome(outs) == 1..Len(outs)

\* The rule is evaluated for every PENDING outcome
Sampled(outs) == {j \in 1..Len(outs) : outs[j].status = "PENDING"}

\* The committed tables after the first scan cycle, run in Friday's window,
\* when it promoted at least one pick
TrackerInit ==
    /\ raw = ScanUniverse
    /\ already = {}
    /\ bsz = BATCH_SIZE
    /\ mps = MIN_PER_SECTOR
    /\ tie_kind = "stable"
    /\ json_ok = TRUE
    /\ results = <<>>
    /\ now = 1
    /\ last_run = "committed"
    /\ last_check = <<>>
    /\ cycle = IdleCycle({})
    /\ HelpersIdle
    /\ LET u == GetDiversifiedUniverse(raw, <<>>, json_ok)
           selected == SelectedBatch(<<>>, u.frame, now, tie_kind)
       IN /\ cache = u.cache
          /\ \E fetch \in [TickersOf(selected) -> FetchResults] :
                LET scan == ScanBatch(selected, fetch, now)
                    added == scan.added IN
                \E top5 \in IF RankerCalled(added) THEN RankerReplies ELSE {<<>>} :
                    LET r == Promote(added, top5, 0, now, NoNames(added))
                    IN /\ ~r.raised
                       /\ ~scan.broken
                       /\ r.outs # <<>>
                       /\ signals = r.added
                       /\ outcomes = r.outs

\* One scheduled price check of one outcome; it appends a PriceCheck
PriceCheck(j, price) ==
    /\ j \in Sampled(outcomes)
    /\ outcomes' = [outcomes EXCEPT
                        ![j] = CheckOutcome(@, signals[@.signal_id], price, now)]
    /\ last_check' = <<[outcome |-> j, at |-> now, price |-> price]>>
    /\ UNCHANGED <<selectVars, cache, results, signals, now, last_run, cycle,
                   helperVars>>

\* A day passes between scheduled checks
TrackTick ==
    /\ now < MaxTrackNow
    /\ now' = now + Len(DaySlots)
    /\ last_check' = <<>>
    /\ UNCHANGED <<selectVars, cache, results, signals, outcomes, last_run, cycle,
                   helperVars>>

\* A Ranker reply holds at most two picks, so a cycle creates at most two Outcomes
OutcomeIds == 1..2

TrackerNext ==
    \/ \E j \in 1..Len(outcomes), price \in Prices : PriceCheck(j, price)
    \/ TrackTick

TrackerSpec == TrackerInit /\ [][TrackerNext]_vars

\* Price checks keep being scheduled and time keeps passing
TrackerLive ==
    /\ TrackerSpec
    /\ WF_vars(TrackTick)
    /\ \A j \in OutcomeIds : WF_vars(\E price \in Prices : PriceCheck(j, price))

\* The PriceCheck just appended, with the outcome and Signal it sampled
Checks ==
    {[price |-> last_check[n].price, at |-> last_check[n].at,
      o |-> outcomes[last_check[n].outcome],
      sig |-> signals[outcomes[last_check[n].outcome].signal_id]] : n \in 1..Len(last_check)}

Long(sig) == sig.direction = <<"long">>

Short(sig) == sig.direction = <<"short">>

\* C3: every Outcome starts PENDING, and a step changes a status only from
\* PENDING to MET or from PENDING to NOT_MET; a MET or NOT_MET status stays.
C3_StatusMonotone ==
    /\ \A j \in 1..Len(outcomes) : outcomes[j].status = "PENDING"
    /\ [][\A j \in 1..Len(outcomes) :
            \/ outcomes'[j].status = outcomes[j].status
            \/ /\ outcomes[j].status = "PENDING"
               /\ outcomes'[j].status \in {"MET", "NOT_MET"}]_vars

\* A price check made on a later day than the one that met another pick's target
C3_Witness ==
    \E j \in 1..Len(outcomes), c \in Checks :
        /\ outcomes[j].status = "MET"
        /\ outcomes[j].target_met_at[1] < c.at

\* C4: target_met_at is set exactly on the Outcomes whose status is MET.
C4_MetAtIffMet ==
    \A j \in 1..Len(outcomes) :
        outcomes[j].target_met_at # <<>> <=> outcomes[j].status = "MET"

\* One pick met its target and another lapsed
C4_Witness ==
    /\ \E j \in 1..Len(outcomes) :
        outcomes[j].status = "MET" /\ outcomes[j].target_met_at # <<>>
    /\ \E j \in 1..Len(outcomes) :
        outcomes[j].status = "NOT_MET" /\ outcomes[j].target_met_at = <<>>

\* C5: after a check before the deadline the Outcome is MET when the price is at
\* or above the target of a long pick, or at or below the target of a short pick,
\* and PENDING otherwise.
C5_MetWhenTargetReached ==
    \A c \in Checks :
        c.at < c.o.deadline =>
            IF \/ Long(c.sig) /\ c.price >= c.sig.target_price[1]
               \/ Short(c.sig) /\ c.price <= c.sig.target_price[1]
            THEN c.o.status = "MET"
            ELSE c.o.status = "PENDING"

\* A short pick with target 90 sampled at 88 before its deadline, now MET
C5_Witness ==
    \E c \in Checks :
        /\ c.at < c.o.deadline
        /\ Short(c.sig) /\ c.sig.target_price = <<90>> /\ c.price = 88
        /\ c.o.status = "MET"

\* C6: a check before the deadline whose price is past the stop but short of the
\* target leaves the Outcome PENDING.
C6_StopBreachKeepsPending ==
    \A c \in Checks :
        /\ c.at < c.o.deadline
        /\ \/ Long(c.sig) /\ c.price < c.sig.stop_loss[1]
                          /\ c.price < c.sig.target_price[1]
           \/ Short(c.sig) /\ c.price > c.sig.stop_loss[1]
                           /\ c.price > c.sig.target_price[1]
        => c.o.status = "PENDING"

\* A long pick with target 110 and stop 95 sampled at 90, still PENDING
C6_Witness ==
    \E c \in Checks :
        /\ c.at < c.o.deadline
        /\ Long(c.sig) /\ c.sig.stop_loss = <<95>> /\ c.price = 90
        /\ c.o.status = "PENDING"

\* C7: a check at or after the deadline whose price has reached the target makes
\* the Outcome MET and records the time of the check as target_met_at.
C7_TargetBeatsDeadline ==
    \A c \in Checks :
        /\ c.at >= c.o.deadline
        /\ \/ Long(c.sig) /\ c.price >= c.sig.target_price[1]
           \/ Short(c.sig) /\ c.price <= c.sig.target_price[1]
        => c.o.status = "MET" /\ c.o.target_met_at = <<c.at>>

\* A check exactly at the deadline that found the target reached
C7_Witness ==
    \E c \in Checks :
        /\ c.at = c.o.deadline
        /\ Long(c.sig) /\ c.price >= c.sig.target_price[1]
        /\ c.o.status = "MET" /\ c.o.target_met_at = <<c.at>>

\* C8: while checks keep being scheduled, every PENDING Outcome eventually leaves
\* PENDING, and a check at or after the deadline that does not find the target
\* reached leaves it NOT_MET.
C8_DeadlineResolves ==
    /\ \A j \in OutcomeIds :
        (j <= Len(outcomes) /\ outcomes[j].status = "PENDING")
            ~> (j <= Len(outcomes) /\ outcomes[j].status # "PENDING")
    /\ [](\A c \in Checks :
            /\ c.at >= c.o.deadline
            /\ ~ \/ Long(c.sig) /\ c.price >= c.sig.target_price[1]
                 \/ Short(c.sig) /\ c.price <= c.sig.target_price[1]
            => c.o.status = "NOT_MET")

\* A pick whose first check at the deadline missed the target, now NOT_MET
C8_Witness ==
    \E c \in Checks :
        /\ c.at = c.o.deadline
        /\ Long(c.sig) /\ c.price < c.sig.target_price[1]
        /\ c.o.status = "NOT_MET"

====
